---- MODULE Spec2Model ----
(***************************************************************************)
(* RustChat: the turn loop of src/main.rs and Experimental/main.rs (the    *)
(* latter adds update_profile), the indicator task animate_thinking, the   *)
(* renderer print_response_character_by_character, and query_gpt.          *)
(* Text is a sequence of one-character strings.                            *)
(***************************************************************************)
EXTENDS Integers, Sequences, FiniteSets, TLC

VARIABLES variant, pc, fs, conversation_log, input, request, response,
          exit_error, chan, stops, anim_pc, dots, frames, out, render_i,
          turns, reconciled, update_request, answer, original_data,
          user_profile_updated, requests, log_before, polls, frames_at_stop,
          update_answer

vars == <<variant, pc, fs, conversation_log, input, request, response,
          exit_error, chan, stops, anim_pc, dots, frames, out, render_i,
          turns, reconciled, update_request, answer, original_data,
          user_profile_updated, requests, log_before, polls, frames_at_stop,
          update_answer>>

(* ------------------------------ bounds --------------------------------- *)
MaxTurns == 2
MaxFrames == 3
MaxCycleFrames == 8

(* --------------------------- program constants ------------------------- *)
Threshold == 200
DotsLimit == 6
PromptPath == "system_prompts/prompt.md"
UserprofilePath == "memories/userprofile.txt"
BackupUserprofilePath == "memories/userprofile_backup.txt"
Paths == {PromptPath, UserprofilePath, BackupUserprofilePath}
Roles == {"system", "user", "assistant"}
Whitespace == {" ", "\n", "\t"}
ApiCallFailed == <<"API call failed: ">>

(* ------------------------------- text ---------------------------------- *)
Range(s) == {s[i] : i \in DOMAIN s}

\* str::trim_start
RECURSIVE TrimStart(_)
TrimStart(s) ==
    IF s # <<>> /\ Head(s) \in Whitespace THEN TrimStart(Tail(s)) ELSE s

\* str::trim_end
RECURSIVE TrimEnd(_)
TrimEnd(s) ==
    IF s # <<>> /\ s[Len(s)] \in Whitespace
    THEN TrimEnd(SubSeq(s, 1, Len(s) - 1)) ELSE s

\* str::trim
Trim(s) == TrimEnd(TrimStart(s))

\* " ".repeat(n), ".".repeat(n)
RECURSIVE Repeat(_, _)
Repeat(c, n) == IF n = 0 THEN <<>> ELSE <<c>> \o Repeat(c, n - 1)

\* json!({"role": role, "content": content})
Message(role, content) == [role |-> role, content |-> content]

(* ------------------------------ files ---------------------------------- *)
File(data) == [exists |-> TRUE, data |-> data]
Missing == [exists |-> FALSE, data |-> <<>>]

\* Result: Ok(value) or Err(error message)
Ok(v) == [ok |-> TRUE, value |-> v, err |-> <<>>]
Err(e) == [ok |-> FALSE, value |-> <<>>, err |-> e]

\* fs::read_to_string: Ok(content) or Err when the file cannot be read
ReadToString(files, path) ==
    IF files[path].exists THEN Ok(files[path].data)
    ELSE Err(<<"No such file or directory">>)

\* fs::write: replaces the whole content of the file at path
FsWrite(files, path, data) == [files EXCEPT ![path] = File(data)]

(* ------------------------- completion service -------------------------- *)
Statuses == {200, 500}
BodyKinds == {"chat", "json", "text"}

ErrorBodies == {<<"rate limited">>}

\* What the service may answer: the request is not answered at all
\* (sent = FALSE), or a status and a body.  A "chat" body is JSON whose
\* choices[0].message.content is text; a "json" body is JSON without that
\* field; a "text" body is not JSON; readable = FALSE is a body whose
\* transfer fails.  Bodies that carry a completion come with a success
\* status and draw it from texts, the others draw their text from ErrorBodies.
HttpOutcomes(texts) ==
    {[sent |-> FALSE, status |-> 0, readable |-> FALSE, kind |-> "text", text |-> <<>>]}
    \cup [sent : {TRUE}, status : Statuses, readable : {FALSE}, kind : {"text"}, text : {<<>>}]
    \cup [sent : {TRUE}, status : {200}, readable : {TRUE}, kind : {"chat"}, text : texts]
    \cup [sent : {TRUE}, status : Statuses, readable : {TRUE}, kind : {"json", "text"}, text : ErrorBodies]

\* the bytes of the body as text (response.text())
BodyText(r) ==
    CASE r.kind = "chat" -> <<"{\"choices\":[{\"message\":{\"content\":\"">> \o r.text \o <<"\"}}]}">>
      [] r.kind = "json" -> <<"{\"error\":\"">> \o r.text \o <<"\"}">>
      [] OTHER -> r.text

\* response.status().is_success()
IsSuccess(status) == status >= 200 /\ status <= 299

\* res["choices"].get(0).and_then(|c| c["message"]["content"].as_str()).unwrap_or_default()
ChoiceContent(r) == IF r.kind = "chat" THEN r.text ELSE <<>>

\* response.json::<Value>()
ParseJson(r) ==
    IF ~r.readable THEN Err(<<"error reading response body">>)
    ELSE IF r.kind = "text" THEN Err(<<"error decoding response body">>)
    ELSE Ok(ChoiceContent(r))

QueryGptMut(r) ==
    IF ~r.sent THEN Err(<<"error sending request">>)
    ELSE IF IsSuccess(r.status) THEN ParseJson(r)
    ELSE IF ~r.readable THEN Err(<<"error reading response body">>)
    ELSE Err(BodyText(r))

MessagesMut(log) == IF log = <<>> THEN log ELSE <<log[Len(log)]>>

\* "messages": conversation_log, the message list of the request body
Messages(log) == log

\* query_gpt: the result for the service's answer r
QueryGpt(r) ==
    IF ~r.sent THEN Err(<<"error sending request">>)
    ELSE IF IsSuccess(r.status) THEN ParseJson(r)
    ELSE IF ~r.readable THEN Err(<<"error reading response body">>)
    ELSE Err(ApiCallFailed \o BodyText(r))

(* --------------------- difflib::SequenceMatcher ------------------------ *)
\* Positions are 0-based and ranges half-open, as in the library; element i
\* of a sequence s is s[i + 1].

\* chain_b: the positions in b of every element, none for an element that
\* b does not hold and none for a "popular" element (more than len/100 + 1
\* occurrences once b has 200 elements)
B2J(a, b) ==
    LET n == Len(b)
        all == [x \in Range(a) \cup Range(b) |-> {j \in 0..(n - 1) : b[j + 1] = x}]
    IN  IF n >= 200
        THEN [x \in Range(a) \cup Range(b) |->
                 IF Cardinality(all[x]) > (n \div 100) + 1 THEN {} ELSE all[x]]
        ELSE all

\* a[i] and b[j] are the same element and chain_b kept it
Matched(a, b, b2j, i, j) == a[i + 1] = b[j + 1] /\ b2j[a[i + 1]] # {}

\* the length of the run of matched pairs that starts at (i, j)
RunLength(a, b, b2j, i, j, ahi, bhi) ==
    LET limit == IF ahi - i < bhi - j THEN ahi - i ELSE bhi - j
    IN  CHOOSE k \in 1..limit :
            /\ k = limit \/ ~Matched(a, b, b2j, i + k, j + k)
            /\ \A t \in 1..(k - 1) : Matched(a, b, b2j, i + t, j + t)

\* find_longest_match, the scan of a[alo..ahi) against b2j: every maximal
\* run of matched pairs inside the two ranges, as <<i, j, size>>
Runs(a, b, b2j, alo, ahi, blo, bhi) ==
    LET starts == UNION {{<<i, j>> : j \in {j2 \in b2j[a[i + 1]] :
                                            /\ j2 >= blo /\ j2 < bhi
                                            /\ ~(i > alo /\ j2 > blo /\ Matched(a, b, b2j, i - 1, j2 - 1))}}
                         : i \in alo..(ahi - 1)}
    IN  {<<st[1], st[2], RunLength(a, b, b2j, st[1], st[2], ahi, bhi)>> : st \in starts}

\* find_longest_match, extension of the match to the left over equal elements
RECURSIVE ExtendLeft(_, _, _, _, _)
ExtendLeft(a, b, alo, blo, m) ==
    IF m[1] > alo /\ m[2] > blo /\ a[m[1]] = b[m[2]]
    THEN ExtendLeft(a, b, alo, blo, <<m[1] - 1, m[2] - 1, m[3] + 1>>)
    ELSE m

\* find_longest_match, extension of the match to the right over equal elements
RECURSIVE ExtendRight(_, _, _, _, _)
ExtendRight(a, b, ahi, bhi, m) ==
    IF m[1] + m[3] < ahi /\ m[2] + m[3] < bhi /\ a[m[1] + m[3] + 1] = b[m[2] + m[3] + 1]
    THEN ExtendRight(a, b, ahi, bhi, <<m[1], m[2], m[3] + 1>>)
    ELSE m

\* find_longest_match: the longest run, of those the one that starts
\* earliest in a, of those the one that starts earliest in b; <<alo, blo, 0>>
\* when nothing matches
FindLongestMatch(a, b, b2j, alo, ahi, blo, bhi) ==
    LET runs == Runs(a, b, b2j, alo, ahi, blo, bhi)
        found == IF runs = {} THEN <<alo, blo, 0>>
                 ELSE CHOOSE m \in runs : \A m2 \in runs :
                          \/ m2[3] < m[3]
                          \/ (m2[3] = m[3] /\ m[1] < m2[1])
                          \/ (m2[3] = m[3] /\ m[1] = m2[1] /\ m[2] <= m2[2])
    IN  ExtendRight(a, b, ahi, bhi, ExtendLeft(a, b, alo, blo, found))

\* get_matching_blocks: the longest match, then the pieces to its left and
\* to its right, in increasing order of position
RECURSIVE MatchingBlocks(_, _, _, _, _, _, _)
MatchingBlocks(a, b, b2j, alo, ahi, blo, bhi) ==
    LET m == FindLongestMatch(a, b, b2j, alo, ahi, blo, bhi)
    IN  IF m[3] = 0 THEN <<>>
        ELSE (IF alo < m[1] /\ blo < m[2]
              THEN MatchingBlocks(a, b, b2j, alo, m[1], blo, m[2]) ELSE <<>>)
             \o <<m>> \o
             (IF m[1] + m[3] < ahi /\ m[2] + m[3] < bhi
              THEN MatchingBlocks(a, b, b2j, m[1] + m[3], ahi, m[2] + m[3], bhi) ELSE <<>>)

\* get_matching_blocks: the blocks and the closing block <<la, lb, 0>>
\* (merging adjacent blocks only joins equal spans and is left out)
GetMatchingBlocks(a, b) ==
    LET found == CHOOSE blocks \in {MatchingBlocks(a, b, b2j, 0, Len(a), 0, Len(b)) : b2j \in {B2J(a, b)}} : TRUE
    IN  found \o <<(<<Len(a), Len(b), 0>>)>>

\* get_opcodes: the tag of the span in front of block n, "" when block n
\* starts where block n - 1 ended
TagBefore(blocks, n) ==
    LET i == IF n = 1 THEN 0 ELSE blocks[n - 1][1] + blocks[n - 1][3]
        j == IF n = 1 THEN 0 ELSE blocks[n - 1][2] + blocks[n - 1][3]
        m == blocks[n]
    IN  IF i < m[1] /\ j < m[2] THEN "replace"
        ELSE IF i < m[1] THEN "delete"
        ELSE IF j < m[2] THEN "insert" ELSE ""

\* diff.get_opcodes().iter().filter(|&&(tag, _, _, _, _)| tag != "equal").count()
NumDifferences(a, b) ==
    LET blocks == GetMatchingBlocks(a, b)
    IN  Cardinality({n \in DOMAIN blocks : TagBefore(blocks, n) # ""})

(* ----------------------------- documents ------------------------------- *)
\* Profile texts of the model: the short ones, and three long ones built so
\* that the number of differing spans reaches Threshold and Threshold + 1.
ShortDocs == {<<>>, <<"0">>, <<"1">>}

\* the size of the block in the middle of a pattern of n gaps
RECURSIVE BlockSize(_)
BlockSize(n) == IF n <= 1 THEN 0 ELSE 1 + BlockSize(n - (n \div 2))

\* n single gaps (FALSE) separated by blocks (TRUE), the longest block in
\* the middle of every stretch
RECURSIVE GapPattern(_)
GapPattern(n) ==
    IF n <= 1 THEN <<FALSE>>
    ELSE GapPattern(n \div 2) \o [i \in 1..BlockSize(n) |-> TRUE] \o GapPattern(n - (n \div 2))

IsKept(p) == p[2]

\* LongRevised: pairwise different characters; LongOriginal: LongRevised
\* without the characters at the Threshold + 1 gaps; LongRevisedAtThreshold:
\* LongRevised without its last character (the last gap)
LongPattern == GapPattern(Threshold + 1)
LongRevised == [i \in DOMAIN LongPattern |-> ToString(i + 1)]
LongOriginal ==
    LET kept == SelectSeq([i \in DOMAIN LongPattern |-> <<LongRevised[i], LongPattern[i]>>], IsKept)
    IN  [i \in DOMAIN kept |-> kept[i][1]]
LongRevisedAtThreshold == SubSeq(LongRevised, 1, Len(LongRevised) - 1)

LongDocs == {LongOriginal, LongRevised, LongRevisedAtThreshold}
AllDocs == ShortDocs \cup LongDocs

\* the documents the service may send as the revised profile
RevisedDocs == {<<>>, <<"0">>, LongRevised, LongRevisedAtThreshold}

\* NumDifferences for every pair of an original and a revised document of
\* the model, computed once: <<original, revised, num_differences>>
DiffTable == {<<p[1], p[2], NumDifferences(p[1], p[2])>> : p \in AllDocs \X RevisedDocs}

\* the entry of DiffTable for original and revised
Differences(original, revised) ==
    (CHOOSE t \in DiffTable : t[1] = original /\ t[2] = revised)[3]

(* --------------------------- update_profile ---------------------------- *)
UpdateDataMut == conversation_log

\* the message list of the reconciliation request
UpdateData ==
    <<Message("system", <<"Profile_check">>), Message("user", <<"user_chat_log_content">>)>>

RollbackInvertedMut(num_differences) == num_differences <= Threshold

RollbackMut(num_differences) == num_differences >= Threshold

\* if num_differences > 200
Rollback(num_differences) == num_differences > Threshold

WriteTargetMut(userprofile, backup_userprofile) == backup_userprofile

\* the file both branches of update_profile write
WriteTarget(userprofile, backup_userprofile) == userprofile

\* what update_profile leaves: the files, its result, whether the request
\* was issued, and its locals original_data and user_profile_updated
Left(files, result, requested, original, updated) ==
    [files |-> files, result |-> result, requested |-> requested,
     original |-> original, updated |-> updated]

\* update_profile writing the revision first and reading the backup after
UpdateProfileMut(files, userprofile, backup_userprofile, r) ==
    LET original_read == ReadToString(files, userprofile)
        original == original_read.value
        response_body == ParseJson(r)
        updated == response_body.value
        written == FsWrite(files, userprofile, updated)
        restored_data == ReadToString(files, backup_userprofile)
    IN  IF ~original_read.ok
        THEN Left(files, Err(original_read.err), FALSE, <<>>, <<>>)
        ELSE IF ~r.sent
        THEN Left(files, Err(<<"error sending request">>), TRUE, original, <<>>)
        ELSE IF ~response_body.ok
        THEN Left(files, Err(response_body.err), TRUE, original, <<>>)
        ELSE IF Rollback(Differences(original, updated))
        THEN IF ~restored_data.ok
             THEN Left(written, Err(restored_data.err), TRUE, original, updated)
             ELSE Left(FsWrite(written, userprofile, restored_data.value), Ok(<<>>), TRUE,
                       original, updated)
        ELSE Left(written, Ok(<<>>), TRUE, original, updated)

\* update_profile, r being the answer of the service to its request
UpdateProfile(files, userprofile, backup_userprofile, r) ==
    LET original_read == ReadToString(files, userprofile)
        original == original_read.value
        response_body == ParseJson(r)
        updated == response_body.value
        num_differences == Differences(original, updated)
        restored_data == ReadToString(files, backup_userprofile)
        target == WriteTarget(userprofile, backup_userprofile)
    IN  IF ~original_read.ok
        THEN Left(files, Err(original_read.err), FALSE, <<>>, <<>>)
        ELSE IF ~r.sent
        THEN Left(files, Err(<<"error sending request">>), TRUE, original, <<>>)
        ELSE IF ~response_body.ok
        THEN Left(files, Err(response_body.err), TRUE, original, <<>>)
        ELSE IF Rollback(num_differences)
        THEN IF ~restored_data.ok
             THEN Left(files, Err(restored_data.err), TRUE, original, updated)
             ELSE Left(FsWrite(files, target, restored_data.value), Ok(<<>>), TRUE,
                       original, updated)
        ELSE Left(FsWrite(files, target, updated), Ok(<<>>), TRUE, original, updated)

(* ------------------------------ terminal ------------------------------- *)
Event(who, text) == [who |-> who, text |-> text]

\* print!("\rThinking{}", ...) of one animation step
Frame(d) ==
    IF d = DotsLimit THEN <<"\r", "Thinking">> \o Repeat(" ", DotsLimit)
    ELSE <<"\r", "Thinking">> \o Repeat(".", d)

NextDotsMut(d) == IF d >= DotsLimit - 1 THEN 0 ELSE d + 1

\* dots after one animation step
NextDots(d) == IF d = DotsLimit THEN 0 ELSE d + 1

StopObservedMut(c) == FALSE

\* stop_signal.try_recv().is_ok(): the value was sent and not yet taken
StopObserved(c) == c = "sent"

\* println!("\rThinking{} ", " ".repeat(6))
ClearLine == <<"\r", "Thinking">> \o Repeat(" ", DotsLimit) \o <<" ", "\n">>

(* --------------------- main: startup and turn loop --------------------- *)
InitialLogMut(file_prompt) == <<Message("system", file_prompt)>>

\* the log after startup: the system message when the prompt is not empty
InitialLog(file_prompt) ==
    IF file_prompt # <<>> THEN <<Message("system", file_prompt)>> ELSE <<>>

PushMut(log, role, content) == <<Message(role, content)>> \o log

\* conversation_log.push(json!({"role": role, "content": content}))
Push(log, role, content) == Append(log, Message(role, content))

LogAfterInputMut(log, line) == Push(log, "user", Trim(line))

\* the log after a line was read: the trimmed line when it is not empty
LogAfterInput(log, line) ==
    LET user_input == Trim(line)
    IN  IF user_input # <<>> THEN Push(log, "user", user_input) ELSE log

\* the log after the reply was rendered
LogAfterReply(log, reply) ==
    IF Trim(reply) # <<>> THEN Push(log, "assistant", reply) ELSE log

AfterQueryMut(res) == IF res.ok THEN "send_stop" ELSE "prompt"

\* query_gpt(...).await?: main goes on with the reply, or returns the error
AfterQuery(res) == IF res.ok THEN "send_stop" ELSE "exited"

CharAtMut(text, i) == text[Len(text) - i + 1]

\* for c in response.chars(): the i-th character of the iteration
CharAt(text, i) == text[i]

AfterReplyMut(build) == "prompt"

\* what follows the push of the assistant message: Experimental/main.rs
\* calls update_profile, src/main.rs is at the end of the loop body
AfterReply(build) == IF build = "Experimental" THEN "update_profile" ELSE "prompt"

TxSendMut(c) == "closed"

\* tx.send(()): the value is in the channel
TxSend(c) == "sent"

JoinReadyMut(task_pc) == TRUE

\* animation_handle.await returns once the task has finished
JoinReady(task_pc) == task_pc = "done"

\* the completions the service may send as the reply
Replies == {<<>>, <<" ">>, <<"a", " ">>}

\* a line of standard input, with its line end
Lines == {<<" ", "\t", "\n">>, <<" ", "b", " ", "c", " ", "\n">>}

\* the files at process start
Files(prompt, profile, backup) ==
    [path \in Paths |->
        IF path = PromptPath THEN prompt
        ELSE IF path = UserprofilePath THEN profile ELSE backup]

PromptFiles == {Missing, File(<<>>), File(<<"a">>)}
ProfileFiles == {Missing, File(<<>>), File(<<"0">>), File(LongOriginal)}

Init ==
    /\ variant \in {"src", "Experimental"}
    /\ pc = "start"
    /\ fs \in IF variant = "src"
              THEN {Files(prompt, Missing, Missing) : prompt \in PromptFiles}
              ELSE {Files(prompt, File(<<"0">>), File(<<"1">>)) : prompt \in PromptFiles}
                   \cup {Files(File(<<"a">>), profile, backup) :
                             profile \in ProfileFiles, backup \in {Missing, File(<<"1">>)}}
    /\ conversation_log = <<>>
    /\ input = <<>>
    /\ request = <<>>
    /\ response = <<>>
    /\ exit_error = <<>>
    /\ chan = "none"
    /\ stops = 0
    /\ anim_pc = "none"
    /\ dots = 0
    /\ frames = 0
    /\ out = <<>>
    /\ render_i = 0
    /\ turns = 0
    /\ reconciled = 0
    /\ update_request = <<>>
    /\ answer = <<>>
    /\ original_data = <<>>
    /\ user_profile_updated = <<>>
    /\ requests = 0
    /\ log_before = <<>>
    /\ polls = 0
    /\ frames_at_stop = 0
    /\ update_answer = <<>>

\* main up to the loop: the prompt file is read, the log is created
Startup ==
    /\ pc = "start"
    /\ LET file_prompt == ReadToString(fs, PromptPath)
       IN  conversation_log' = InitialLog(IF file_prompt.ok THEN file_prompt.value ELSE <<>>)
    /\ pc' = "prompt"
    /\ UNCHANGED <<variant, fs, input, request, response, exit_error, chan, stops,
                   anim_pc, dots, frames, out, render_i, turns, reconciled, update_request, answer,
                   original_data, user_profile_updated,
                   requests, log_before, polls, frames_at_stop, update_answer>>

\* the head of the loop, print!("You: "): a turn starts.  The locals of the
\* last iteration (input, response, tx and rx, the task handle) are gone;
\* out, request, update_request, stops and reconciled hold what this turn
\* wrote, requested, sent and reconciled.
Prompt ==
    /\ pc = "prompt"
    /\ turns < MaxTurns
    /\ turns' = turns + 1
    /\ out' = <<Event("main", <<"You: ">>)>>
    /\ input' = <<>>
    /\ response' = <<>>
    /\ request' = <<>>
    /\ update_request' = <<>>
    /\ answer' = <<>>
    /\ original_data' = <<>>
    /\ user_profile_updated' = <<>>
    /\ chan' = "none"
    /\ stops' = 0
    /\ anim_pc' = "none"
    /\ dots' = 0
    /\ frames' = 0
    /\ reconciled' = 0
    /\ pc' = "read_input"
    /\ requests' = 0
    /\ log_before' = <<>>
    /\ polls' = 0
    /\ frames_at_stop' = 0
    /\ update_answer' = <<>>
    /\ UNCHANGED <<variant, fs, conversation_log, exit_error, render_i>>

\* stdin.read_line, trim, push of the user message
ReadInput ==
    /\ pc = "read_input"
    /\ \E line \in Lines :
         /\ input' = line
         /\ conversation_log' = LogAfterInput(conversation_log, line)
    /\ pc' = "spawn"
    /\ log_before' = conversation_log
    /\ UNCHANGED <<variant, fs, request, response, exit_error, chan, stops, anim_pc,
                   dots, frames, out, render_i, turns, reconciled, update_request, answer,
                   original_data, user_profile_updated,
                   requests, polls, frames_at_stop, update_answer>>

\* oneshot::channel() and tokio::spawn(animate_thinking(rx))
Spawn ==
    /\ pc = "spawn"
    /\ chan' = "open"
    /\ anim_pc' = "poll"
    /\ dots' = 0
    /\ pc' = "send_request"
    /\ UNCHANGED <<variant, fs, conversation_log, input, request, response, exit_error,
                   stops, frames, out, render_i, turns, reconciled, update_request, answer,
                   original_data, user_profile_updated,
                   requests, log_before, polls, frames_at_stop, update_answer>>

\* query_gpt: the request with the log as its messages is sent
SendRequest ==
    /\ pc = "send_request"
    /\ request' = Messages(conversation_log)
    /\ pc' = "query"
    /\ requests' = requests + 1
    /\ UNCHANGED <<variant, fs, conversation_log, input, response, exit_error, chan,
                   stops, anim_pc, dots, frames, out, render_i, turns, reconciled,
                   update_request, answer,
                   original_data, user_profile_updated,
                   log_before, polls, frames_at_stop, update_answer>>

\* query_gpt(...).await?: the reply, or main returns the error and drops tx
ReceiveResponse ==
    /\ pc = "query"
    /\ \E r \in HttpOutcomes(Replies) :
         LET res == QueryGpt(r)
         IN  /\ answer' = <<r>>
             /\ pc' = AfterQuery(res)
             /\ IF res.ok
                THEN /\ response' = res.value
                     /\ UNCHANGED <<exit_error, chan>>
                ELSE /\ exit_error' = res.err
                     /\ chan' = "closed"
                     /\ UNCHANGED response
    /\ UNCHANGED <<variant, fs, conversation_log, input, request, stops, anim_pc, dots,
                   frames, out, render_i, turns, reconciled, update_request,
                   original_data, user_profile_updated,
                   requests, log_before, polls, frames_at_stop, update_answer>>

\* let _ = tx.send(())
SendStop ==
    /\ pc = "send_stop"
    /\ chan' = TxSend(chan)
    /\ stops' = stops + 1
    /\ pc' = "await"
    /\ frames_at_stop' = frames
    /\ UNCHANGED <<variant, fs, conversation_log, input, request, response, exit_error,
                   anim_pc, dots, frames, out, render_i, turns, reconciled, update_request, answer,
                   original_data, user_profile_updated,
                   requests, log_before, polls, update_answer>>

\* let _ = animation_handle.await
AwaitAnimation ==
    /\ pc = "await"
    /\ JoinReady(anim_pc)
    /\ pc' = "render"
    /\ UNCHANGED <<variant, fs, conversation_log, input, request, response, exit_error,
                   chan, stops, anim_pc, dots, frames, out, render_i, turns, reconciled,
                   update_request, answer,
                   original_data, user_profile_updated,
                   requests, log_before, polls, frames_at_stop, update_answer>>

\* print_response_character_by_character: print!("Bot: ")
RenderLabel ==
    /\ pc = "render"
    /\ out' = Append(out, Event("renderer", <<"Bot: ">>))
    /\ render_i' = 1
    /\ pc' = "render_chars"
    /\ UNCHANGED <<variant, fs, conversation_log, input, request, response, exit_error,
                   chan, stops, anim_pc, dots, frames, turns, reconciled, update_request, answer,
                   original_data, user_profile_updated,
                   requests, log_before, polls, frames_at_stop, update_answer>>

\* print_response_character_by_character: one character, or the final println!()
RenderChar ==
    /\ pc = "render_chars"
    /\ IF render_i <= Len(response)
       THEN /\ out' = Append(out, Event("renderer", <<CharAt(response, render_i)>>))
            /\ render_i' = render_i + 1
            /\ pc' = pc
       ELSE /\ out' = Append(out, Event("renderer", <<"\n">>))
            /\ render_i' = 0
            /\ pc' = "append"
    /\ UNCHANGED <<variant, fs, conversation_log, input, request, response, exit_error,
                   chan, stops, anim_pc, dots, frames, turns, reconciled, update_request, answer,
                   original_data, user_profile_updated,
                   requests, log_before, polls, frames_at_stop, update_answer>>

\* push of the assistant message; src/main.rs loops, Experimental goes on
\* to update_profile
AppendAssistant ==
    /\ pc = "append"
    /\ conversation_log' = LogAfterReply(conversation_log, response)
    /\ pc' = AfterReply(variant)
    /\ UNCHANGED <<variant, fs, input, request, response, exit_error, chan, stops,
                   anim_pc, dots, frames, out, render_i, turns, reconciled, update_request, answer,
                   original_data, user_profile_updated,
                   requests, log_before, polls, frames_at_stop, update_answer>>

\* update_profile(&api_key, userprofile_path, backup_userprofile_path).await?
CallUpdateProfile ==
    /\ pc = "update_profile"
    /\ \E r \in HttpOutcomes(RevisedDocs) :
         LET u == UpdateProfile(fs, UserprofilePath, BackupUserprofilePath, r)
         IN  /\ fs' = u.files
             /\ update_request' = IF u.requested THEN UpdateData ELSE update_request
             /\ original_data' = u.original
             /\ user_profile_updated' = u.updated
             /\ update_answer' = IF u.requested THEN <<r>> ELSE <<>>
             /\ IF u.result.ok
                THEN pc' = "prompt" /\ UNCHANGED exit_error
                ELSE pc' = "exited" /\ exit_error' = u.result.err
    /\ reconciled' = reconciled + 1
    /\ UNCHANGED <<variant, conversation_log, input, request, response, chan, stops,
                   anim_pc, dots, frames, out, render_i, turns, answer,
                   requests, log_before, polls, frames_at_stop>>

(* ------------------------- animate_thinking ---------------------------- *)
\* stop_signal.try_recv().is_ok(): the clearing line is printed, the task ends
AnimStop ==
    /\ anim_pc = "poll"
    /\ StopObserved(chan)
    /\ chan' = "taken"
    /\ out' = Append(out, Event("indicator", ClearLine))
    /\ anim_pc' = "done"
    /\ polls' = polls + 1
    /\ UNCHANGED <<variant, pc, fs, conversation_log, input, request, response,
                   exit_error, stops, dots, frames, render_i, turns, reconciled,
                   update_request, answer,
                   original_data, user_profile_updated,
                   requests, log_before, frames_at_stop, update_answer>>

\* try_recv() is not Ok (no value yet, or the sender was dropped); at most
\* limit frames are drawn in a turn
AnimPollWithin(limit) ==
    /\ anim_pc = "poll"
    /\ ~StopObserved(chan)
    /\ frames < limit
    /\ anim_pc' = "draw"
    /\ polls' = polls + 1
    /\ UNCHANGED <<variant, pc, fs, conversation_log, input, request, response,
                   exit_error, chan, stops, dots, frames, out, render_i, turns,
                   reconciled, update_request, answer,
                   original_data, user_profile_updated,
                   requests, log_before, frames_at_stop, update_answer>>

AnimPoll == AnimPollWithin(MaxFrames)

\* one animation step: the frame is printed, then sleep(100ms)
AnimDraw ==
    /\ anim_pc = "draw"
    /\ out' = Append(out, Event("indicator", Frame(dots)))
    /\ dots' = NextDots(dots)
    /\ frames' = frames + 1
    /\ anim_pc' = "poll"
    /\ UNCHANGED <<variant, pc, fs, conversation_log, input, request, response,
                   exit_error, chan, stops, render_i, turns, reconciled, update_request, answer,
                   original_data, user_profile_updated,
                   requests, log_before, polls, frames_at_stop, update_answer>>

\* main has returned: the runtime is dropped and the task, suspended in
\* its sleep, is cancelled
RuntimeShutdown ==
    /\ pc = "exited"
    /\ anim_pc = "poll"
    /\ anim_pc' = "cancelled"
    /\ UNCHANGED <<variant, pc, fs, conversation_log, input, request, response,
                   exit_error, chan, stops, dots, frames, out, render_i, turns,
                   reconciled, update_request, answer,
                   original_data, user_profile_updated,
                   requests, log_before, polls, frames_at_stop, update_answer>>

Next ==
    \/ Startup
    \/ Prompt
    \/ ReadInput
    \/ Spawn
    \/ SendRequest
    \/ ReceiveResponse
    \/ SendStop
    \/ AwaitAnimation
    \/ RenderLabel
    \/ RenderChar
    \/ AppendAssistant
    \/ CallUpdateProfile
    \/ AnimStop
    \/ AnimPoll
    \/ AnimDraw
    \/ RuntimeShutdown

Spec == Init /\ [][Next]_vars

(* ------------------------------ scheduling ----------------------------- *)
\* the steps of animate_thinking, which the runtime keeps scheduling
IndicatorStep == AnimStop \/ AnimPoll \/ AnimDraw

\* the steps of main from the reply to the end of the loop body
MainStep ==
    \/ SendStop
    \/ AwaitAnimation
    \/ RenderLabel
    \/ RenderChar
    \/ AppendAssistant
    \/ CallUpdateProfile

\* both builds, started without a prompt file
InitFair ==
    /\ Init
    /\ ~fs[PromptPath].exists

FairSpec ==
    InitFair /\ [][Next]_vars /\ WF_vars(IndicatorStep) /\ WF_vars(MainStep)

(* ------------- src/main.rs with a long wait for the reply -------------- *)
AnimPollCycle == AnimPollWithin(MaxCycleFrames)

InitCycle ==
    /\ Init
    /\ variant = "src"
    /\ fs = Files(Missing, Missing, Missing)

NextCycle ==
    \/ Startup
    \/ Prompt
    \/ ReadInput
    \/ Spawn
    \/ SendRequest
    \/ ReceiveResponse
    \/ SendStop
    \/ AwaitAnimation
    \/ RenderLabel
    \/ RenderChar
    \/ AppendAssistant
    \/ AnimStop
    \/ AnimPollCycle
    \/ AnimDraw
    \/ RuntimeShutdown

SpecCycle == InitCycle /\ [][NextCycle]_vars

(* ------------------------------ properties ----------------------------- *)
RendererEvents(o) == {i \in DOMAIN o : o[i].who = "renderer"}
IndicatorEvents(o) == {i \in DOMAIN o : o[i].who = "indicator"}
IsBlank(text) == \A i \in DOMAIN text : text[i] \in Whitespace
Profile == fs[UserprofilePath]
Backup == fs[BackupUserprofilePath]
\* update_profile returned Ok in this turn
Reconciled == pc = "prompt" /\ reconciled = 1

\* C1: once the renderer has written anything in a turn, the indicator task
\* has taken the stop signal and has ended, its clearing line is on the
\* terminal, and every indicator output of the turn precedes every renderer
\* output.
C1_IndicatorEndsBeforeRender ==
    RendererEvents(out) # {} =>
        /\ chan = "taken"
        /\ anim_pc = "done"
        /\ \E c \in IndicatorEvents(out) : out[c].text = ClearLine
        /\ \A i \in IndicatorEvents(out) : \A r \in RendererEvents(out) : i < r

C1_Witness ==
    /\ pc = "append"
    /\ frames >= 2
    /\ response # <<>>
    /\ Cardinality(RendererEvents(out)) >= 3

\* C2: reading a line whose trimmed text is not empty appends exactly one
\* user entry holding the trimmed line, and a blank line appends nothing;
\* the entry is in the log when the request is issued; after the rendering a
\* reply that is not blank appends exactly one assistant entry and a blank
\* reply appends nothing; no other step of the loop changes the log.
C2_LogGrowth ==
    [][/\ (pc = "read_input" /\ pc' # pc) =>
             IF IsBlank(input')
             THEN conversation_log' = conversation_log
             ELSE /\ Len(conversation_log') = Len(conversation_log) + 1
                  /\ SubSeq(conversation_log', 1, Len(conversation_log)) = conversation_log
                  /\ conversation_log'[Len(conversation_log')] = Message("user", Trim(input'))
       /\ (pc = "send_request" /\ pc' # pc) =>
             /\ conversation_log' = conversation_log
             /\ ~IsBlank(input) =>
                    conversation_log[Len(conversation_log)] = Message("user", Trim(input))
       /\ (pc = "append" /\ pc' # pc) =>
             IF IsBlank(response)
             THEN conversation_log' = conversation_log
             ELSE /\ Len(conversation_log') = Len(conversation_log) + 1
                  /\ SubSeq(conversation_log', 1, Len(conversation_log)) = conversation_log
                  /\ conversation_log'[Len(conversation_log')].role = "assistant"
       /\ pc \notin {"start", "read_input", "append"} =>
             conversation_log' = conversation_log]_vars

C2_Witness ==
    /\ pc = "prompt"
    /\ turns = 2
    /\ Len(conversation_log) = 2
    /\ conversation_log[1].role = "user"
    /\ conversation_log[2].role = "assistant"

\* C3: after update_profile has returned Ok, the profile file holds the
\* revised text when the number of differing spans between the original and
\* the revised text is at most 200, and the backup's text when it is more.
C3_AcceptOrRollback ==
    Reconciled =>
        Profile = File(IF Differences(original_data, user_profile_updated) <= 200
                       THEN user_profile_updated
                       ELSE Backup.data)

\* a revision of exactly 200 differing spans was accepted
C3_Witness ==
    /\ Reconciled
    /\ original_data = LongOriginal
    /\ user_profile_updated = LongRevisedAtThreshold
    /\ Profile = File(LongRevisedAtThreshold)
    /\ Backup.exists

\* C4: once main is past the completion request of a turn, be it with a
\* reply or with an error, the stop signal was sent exactly once and the
\* indicator task has ended.
C4_StopSentAndAwaited ==
    pc \in {"render", "render_chars", "append", "update_profile", "exited"} =>
        stops = 1 /\ anim_pc = "done"

\* C5: a step that leaves main with an error ends the loop, and from then on
\* no request, no rendering, no log entry, no reconciliation and no prompt
\* follows.
C5_NoStepAfterFailure ==
    [][(exit_error' # <<>>) =>
           /\ pc' = "exited"
           /\ conversation_log' = conversation_log
           /\ request' = request
           /\ turns' = turns
           /\ RendererEvents(out') = RendererEvents(out)
           /\ (pc # "update_profile" => reconciled' = reconciled /\ fs' = fs)
           /\ (pc # "update_profile" => update_request' = update_request)]_vars

C5_Witness ==
    /\ pc = "exited"
    /\ answer # <<>>
    /\ ~answer[1].sent
    /\ anim_pc = "cancelled"
    /\ turns = 2

\* C6: when the service answered the completion request of the turn with a
\* status that is no success and the body text b, main has ended with the
\* error "API call failed: " followed by b, and there is no reply.
C6_ApiCallFailed ==
    (answer # <<>> /\ answer[1].sent /\ answer[1].readable /\ ~(answer[1].status \in 200..299)) =>
        /\ pc = "exited"
        /\ exit_error = <<"API call failed: ">> \o BodyText(answer[1])
        /\ response = <<>>

C6_Witness ==
    /\ answer # <<>>
    /\ answer[1].status = 500
    /\ answer[1].kind = "text"
    /\ exit_error = <<"API call failed: ", "rate limited">>

\* C7: when the revised text equals the text update_profile read from the
\* profile file, the profile file holds that same text after update_profile
\* has returned Ok.
C7_IdenticalRevision ==
    (Reconciled /\ user_profile_updated = original_data) => Profile = File(original_data)

C7_Witness ==
    /\ Reconciled
    /\ user_profile_updated = original_data
    /\ original_data = <<"0">>
    /\ Backup = File(<<"1">>)

\* C8: no step changes the backup file.
C8_BackupNeverWritten ==
    [][fs'[BackupUserprofilePath] = fs[BackupUserprofilePath]]_vars

\* a rollback was done and the backup is as it was
C8_Witness ==
    /\ Reconciled
    /\ user_profile_updated = LongRevised
    /\ Profile = File(<<"1">>)
    /\ Backup = File(<<"1">>)

\* C9: every step keeps the log it found as a prefix of the log it leaves.
C9_AppendOnly ==
    [][/\ Len(conversation_log') >= Len(conversation_log)
       /\ SubSeq(conversation_log', 1, Len(conversation_log)) = conversation_log]_vars

C9_Witness ==
    /\ Len(conversation_log) = 5
    /\ conversation_log[4].role = "user"

\* C10: every entry has one of the three roles; a system entry is only the
\* first entry; after startup the first entry is a system entry exactly when
\* the prompt file exists and is not empty, and it then holds the text of
\* the file.
C10_SystemEntry ==
    /\ \A i \in DOMAIN conversation_log : conversation_log[i].role \in {"system", "user", "assistant"}
    /\ \A i \in DOMAIN conversation_log : conversation_log[i].role = "system" => i = 1
    /\ pc # "start" =>
          /\ (conversation_log # <<>> /\ conversation_log[1].role = "system")
                 <=> (fs[PromptPath].exists /\ fs[PromptPath].data # <<>>)
          /\ (fs[PromptPath].exists /\ fs[PromptPath].data # <<>>) =>
                 conversation_log[1] = Message("system", fs[PromptPath].data)

\* the prompt file is missing and the loop has run
C10_Witness ==
    /\ ~fs[PromptPath].exists
    /\ turns = 2
    /\ Len(conversation_log) >= 3
    /\ \A i \in DOMAIN conversation_log : conversation_log[i].role # "system"

\* C11: every turn issues exactly one completion request, also when the
\* line read is blank; the message list of the request is the log as it was
\* before the line was read when the line is blank, and that log followed by
\* the user message holding the trimmed line otherwise; while the request is
\* in flight its message list is the whole log.
C11_RequestIsLog ==
    /\ requests = (IF pc \in {"start", "read_input", "spawn", "send_request"}
                      \/ (pc = "prompt" /\ turns = 0)
                   THEN 0 ELSE 1)
    /\ requests = 1 =>
          request = (IF IsBlank(input) THEN log_before
                     ELSE Append(log_before, Message("user", Trim(input))))
    /\ pc = "query" => request = conversation_log

\* a blank line in the second turn: the request forwards the log of turn one
C11_Witness ==
    /\ pc = "query"
    /\ turns = 2
    /\ IsBlank(input)
    /\ requests = 1
    /\ Len(request) >= 2
    /\ request = log_before

\* the service answered r with a success status and a JSON body
Succeeded(r) == r.sent /\ r.status \in 200..299 /\ r.readable /\ r.kind # "text"

IsFrame(e) == e.who = "indicator" /\ e.text # ClearLine
Drawn == SelectSeq(out, IsFrame)
\* the clearing line is the indicator's last output and the task has ended
ClearIsLast ==
    \A c \in IndicatorEvents(out) :
        out[c].text = ClearLine =>
            /\ anim_pc = "done"
            /\ \A i \in IndicatorEvents(out) : i <= c

\* C13 as stated: the frame drawn at step n + 6 is the frame drawn at step
\* n, and nothing is drawn after the clearing line.
C13_PeriodSix ==
    /\ \A n \in DOMAIN Drawn : n + 6 <= Len(Drawn) => Drawn[n + 6] = Drawn[n]
    /\ ClearIsLast

\* C13 amended: the frame drawn at step n + 7 is the frame drawn at step n,
\* any two frames fewer than 7 steps apart differ (0 to 5 dots, then the
\* blank frame), and once the stop is observed the clearing line is the
\* indicator's last output and the task has ended.
C13_PeriodSeven ==
    /\ \A n \in DOMAIN Drawn : n + 7 <= Len(Drawn) => Drawn[n + 7] = Drawn[n]
    /\ \A m, n \in DOMAIN Drawn : (m < n /\ n - m < 7) => Drawn[m] # Drawn[n]
    /\ \A n \in DOMAIN Drawn : n <= 6 => Drawn[n].text = <<"\r", "Thinking">> \o Repeat(".", n - 1)
    /\ ClearIsLast

\* a full cycle and one more frame were drawn, then the stop was observed
C13_Witness ==
    /\ Len(Drawn) = 8
    /\ Drawn[8] = Drawn[1]
    /\ Drawn[7].text = <<"\r", "Thinking", " ", " ", " ", " ", " ", " ">>
    /\ anim_pc = "done"
    /\ out[Len(out)].text = ClearLine

\* what the renderer has written in this turn, in order
IsRendererEvent(e) == e.who = "renderer"
Rendered == [i \in DOMAIN SelectSeq(out, IsRendererEvent) |-> SelectSeq(out, IsRendererEvent)[i].text]
\* the label, the characters of r one by one, a newline
LabelCharsNewline(r) == <<(<<"Bot: ">>)>> \o [i \in DOMAIN r |-> <<r[i]>>] \o <<(<<"\n">>)>>

\* C14: what the renderer has written so far is a prefix of the label
\* "Bot: ", the characters of the reply one at a time in their order, and one
\* newline; once the renderer has returned it is all of that, for an empty
\* reply the label and the newline.
C14_RendererOutput ==
    /\ Len(Rendered) <= Len(response) + 2
    /\ Rendered = SubSeq(LabelCharsNewline(response), 1, Len(Rendered))
    /\ pc \in {"append", "update_profile"} => Rendered = LabelCharsNewline(response)
    /\ (pc \in {"prompt", "exited"} /\ Rendered # <<>>) => Rendered = LabelCharsNewline(response)

C14_Witness ==
    /\ pc = "append"
    /\ response = <<"a", " ">>
    /\ Rendered = <<(<<"Bot: ">>), <<"a">>, <<" ">>, <<"\n">>>>

\* C15: every frame is drawn after a poll of its own (one poll per
\* animation step), and once main has sent the stop signal the indicator
\* draws at most one more frame; when it has ended it has printed the
\* clearing line, no more than one frame after the stop was sent.
C15_OneFrameAfterStop ==
    /\ polls = frames + (IF anim_pc \in {"draw", "done"} THEN 1 ELSE 0)
    /\ stops = 1 => frames <= frames_at_stop + 1
    /\ anim_pc = "done" =>
          /\ stops = 1
          /\ frames <= frames_at_stop + 1
          /\ \E c \in IndicatorEvents(out) : out[c].text = ClearLine

\* the stop was sent between a poll and its frame: one frame came after it
C15_Witness ==
    /\ anim_pc = "done"
    /\ stops = 1
    /\ frames_at_stop = 1
    /\ frames = 2
    /\ polls = 3

\* C16: when the reconciliation request was not answered, or was answered
\* with a status that is no success, update_profile has returned an error
\* that ended main, and the profile file holds the text update_profile read
\* from it.
C16_NonSuccessIsError ==
    (update_answer # <<>> /\ ~(update_answer[1].sent /\ update_answer[1].status \in 200..299)) =>
        /\ pc = "exited"
        /\ exit_error # <<>>
        /\ Profile = File(original_data)

\* the state of the turn
Phase ==
    CASE pc = "start" -> "Idle"
      [] pc \in {"prompt", "read_input"} -> "AwaitingInput"
      [] pc \in {"spawn", "send_request", "query", "send_stop", "await"} -> "RequestInFlight"
      [] pc \in {"render", "render_chars", "append"} -> "Rendering"
      [] pc = "update_profile" -> "Reconciling"
      [] OTHER -> "Exited"

C18_FixedReconciliationRequest ==
    [][/\ update_request' \in
             {<<>>, <<[role |-> "system", content |-> <<"Profile_check">>],
                      [role |-> "user", content |-> <<"user_chat_log_content">>]>>}
       /\ (pc = "update_profile" /\ fs[UserprofilePath].exists) => update_request' # <<>>
       /\ pc = "update_profile" => conversation_log' = conversation_log]_vars

\* the second turn's request, the log holding four entries by then
C18_Witness ==
    /\ turns = 2
    /\ reconciled = 1
    /\ Len(update_request) = 2
    /\ Len(conversation_log) = 5
    /\ conversation_log[1].role = "system"

\* C19: a run of update_profile that cannot read the profile file issues no
\* request, ends main with the error and leaves every file as it was; a run
\* that decides to roll back and cannot read the backup file ends main with
\* the error and leaves the profile file as it was.
C19_ReadFailureKeepsProfile ==
    [][pc = "update_profile" =>
          /\ ~fs[UserprofilePath].exists =>
                /\ fs' = fs
                /\ update_request' = <<>> /\ update_answer' = <<>>
                /\ pc' = "exited" /\ exit_error' # <<>>
          /\ (/\ fs[UserprofilePath].exists
              /\ ~fs[BackupUserprofilePath].exists
              /\ update_answer' # <<>> /\ Succeeded(update_answer'[1])
              /\ Differences(fs[UserprofilePath].data, user_profile_updated') > 200) =>
                /\ fs' = fs
                /\ pc' = "exited" /\ exit_error' # <<>>]_vars

\* a rollback was decided, the backup is missing, the profile is as it was
C19_Witness ==
    /\ pc = "exited"
    /\ reconciled = 1
    /\ user_profile_updated = LongRevised
    /\ ~Backup.exists
    /\ Profile = File(LongOriginal)

\* C20: the indicator task of a turn is alive only while the completion
\* request of the turn is being sent or is in flight or its stop is pending:
\* not while main awaits input, renders, reconciles the profile, or has
\* left the loop.
C20_IndicatorOnlyDuringRequest ==
    anim_pc \in {"poll", "draw"} => pc \in {"send_request", "query", "send_stop", "await"}

====
